---------------------------- MODULE Spec2Model ----------------------------
(***************************************************************************)
(* PixelDP model base class (src/models/pixeldp.py): the build-time        *)
(* bookkeeping of sensitivities and Parseval-tracked kernels, the noise    *)
(* layer gate, the privacy multiplier, and the composite train step with   *)
(* its control dependencies as the dataflow engine executes it.            *)
(***************************************************************************)
EXTENDS Integers, Sequences, FiniteSets, TLC

VARIABLES hps, mode, pc, _sensitivities, _parseval_convs, _parseval_ws,
          _extra_train_ops, layers, gate_hit, noise_layers, call, ret, err,
          graph, status, writes

vars == <<hps, mode, pc, _sensitivities, _parseval_convs, _parseval_ws,
          _extra_train_ops, layers, gate_hit, noise_layers, call, ret, err,
          graph, status, writes>>

book == <<_sensitivities, _parseval_convs, _parseval_ws>>

\* ------------------------------------------------------------ bounds
MaxLayers == 2      \* _conv calls of one forward-construction pass
MaxNorm   == 2      \* measured kernel norms range over 1..MaxNorm
MaxPos    == 2      \* layer positions and noise ordinals range over 1..MaxPos
MaxNoise  == 1      \* noise layers created in one pass
MaxExtra  == 1      \* extra train ops registered in one pass

Norms       == 1..MaxNorm
Positions   == 1..MaxPos
Activations == {"x0", "x1"}
FilterSizes == {3}
StrideArrs  == {<<1, 1, 1, 1>>, <<1, 2, 2, 1>>, <<1, 1, 2, 1>>}
LayerBounds == {"l2_l2", "l1_l2", "l1_l1", "None"}
Schemes     == {"bound", "optimize", "None"}
NoiseNorms  == {"l1", "l2", "None"}

None == [op |-> "None"]

\* ------------------------------------------------------------ helpers
\* Additive composition of the list, the composition the tracker must not use.
RECURSIVE reduce_sum(_)
reduce_sum(s) == IF s = <<>> THEN 0 ELSE Head(s) + reduce_sum(Tail(s))

\* tf.reduce_prod over the Python list of scalars.
RECURSIVE reduce_prod(_)
reduce_prod(s) == IF s = <<>> THEN 1 ELSE Head(s) * reduce_prod(Tail(s))

\* math.ceil(filter_size / stride)
CeilDiv(a, b) == (a + b - 1) \div b

pre_noise_sensitivity == reduce_prod(_sensitivities)


Tensor(id) == [op |-> "input", id |-> id]

\* ---------------------------------------------------------- _dp_mult
\* The multiplier is kept exact as attack_norm_bound * factor / dp_epsilon, where
\* factor is sqrt(2 ln(1.25/dp_delta)) for the Gaussian mechanism and 1 for the
\* Laplace mechanism; dp_delta is counted in hundredths (5 is 0.05, 125 is 1.25).
\* err is the exception the Python expression raises, "ok" when it returns.
DpValue(mech, num, den, rad) ==
    [err |-> "ok", mech |-> mech, num |-> num, den |-> den, rad |-> rad]

DpError(e) == [err |-> e, mech |-> "none", num |-> 0, den |-> 1, rad |-> 0]

_dp_mult(h, sensitivity_norm) ==
    IF sensitivity_norm = "l2"
    THEN IF h.dp_delta = 0 THEN DpError("ZeroDivisionError")
         ELSE IF h.dp_delta < 0 \/ h.dp_delta > 125
              THEN DpError("ValueError: math domain error")
              ELSE IF h.dp_epsilon = 0 THEN DpError("ZeroDivisionError")
                   ELSE DpValue("gauss", h.attack_norm_bound, h.dp_epsilon,
                                h.dp_delta)
    ELSE IF sensitivity_norm = "l1"
         THEN IF h.dp_epsilon = 0 THEN DpError("ZeroDivisionError")
              ELSE DpValue("laplace", h.attack_norm_bound, h.dp_epsilon, 0)
         ELSE DpValue("none", 0, 1, 0)

\* The sign of a returned multiplier: the Gaussian factor is positive below 1.25.
IsNegative(m) ==
    /\ m.err = "ok"
    /\ m.num * m.den < 0
    /\ (m.mech = "gauss" => m.rad < 125)

\* -------------------------------------------------------------- _conv
\* The if/elif chain with the polarity of the is_pre_noise test reversed.
ConvBranch_flipped(a) ==
    IF ~a.is_pre_noise THEN "exempt"
    ELSE IF a.layer_sensivity_bound \in {"l2_l2", "l1_l2", "l1_l1"}
         THEN a.layer_sensivity_bound
         ELSE "unsupported"

\* The branch of the if/elif chain a call takes once the kernel exists.
ConvBranch(a) ==
    IF a.is_pre_noise THEN "exempt"
    ELSE IF a.layer_sensivity_bound \in {"l2_l2", "l1_l2", "l1_l1"}
         THEN a.layer_sensivity_bound
         ELSE "unsupported"

\* assert(strides[1] == strides[2]); Python indexes from 0.
StridesOk(a) == a.strides[2] = a.strides[3]

\* The l2_l2 branch without its test for the optimize scheme.
ConvOutcome_noraise(a) ==
    IF ~StridesOk(a) THEN "AssertionError"
    ELSE LET br == ConvBranch(a)
             sc == a.sensitivity_control_scheme
         IN  IF br \in {"exempt", "l2_l2"} THEN "ok"
             ELSE IF br \in {"l1_l2", "l1_l1"}
                  THEN IF sc \in {"optimize", "bound"} THEN "ok"
                       ELSE "UnboundLocalError"
                  ELSE "ValueError: Pre-noise with unsupported sensitivity."

\* How the call ends: "ok" (it returns) or the exception it raises.
ConvOutcome(a) ==
    IF ~StridesOk(a) THEN "AssertionError"
    ELSE LET br == ConvBranch(a)
             sc == a.sensitivity_control_scheme
         IN  IF br = "exempt" THEN "ok"
             ELSE IF br = "l2_l2"
                  THEN IF sc = "optimize"
                       THEN "ValueError: Cannot optimize sensitivity for l2_l2."
                       ELSE "ok"
                  ELSE IF br \in {"l1_l2", "l1_l1"}
                       THEN IF sc \in {"optimize", "bound"} THEN "ok"
                            ELSE "UnboundLocalError"
                       ELSE "ValueError: Pre-noise with unsupported sensitivity."

\* The kernel's norm is read only where the layer measures the raw kernel:
\* tf.svd under l2_l2/bound, the per-channel norm under l1_l2 or l1_l1/optimize.
Measures(a) ==
    /\ StridesOk(a)
    /\ \/ ConvBranch(a) = "l2_l2" /\ a.sensitivity_control_scheme = "bound"
       \/ ConvBranch(a) \in {"l1_l2", "l1_l1"}
            /\ a.sensitivity_control_scheme = "optimize"

\* self._sensitivities after the call; n is the measured norm of the new kernel.
ConvSens(a, n, sens) ==
    LET br == ConvBranch(a)
        sc == a.sensitivity_control_scheme
    IN  IF br = "l2_l2"
        THEN IF sc = "bound" THEN Append(sens, n) ELSE sens
        ELSE IF br \in {"l1_l2", "l1_l1"}
             THEN IF sc = "optimize" THEN Append(sens, n)
                  ELSE IF sc = "bound" THEN Append(sens, 1)
                       ELSE sens
             ELSE sens

\* self._parseval_convs after the call: the append precedes the scheme test.
ConvParseval(a, kernel, convs) ==
    IF ConvBranch(a) = "l2_l2" THEN Append(convs, kernel) ELSE convs

\* The value returned: None when the call raises or falls off the l2_l2 branch.
ConvRet(a, kernel) ==
    LET br == ConvBranch(a)
        sc == a.sensitivity_control_scheme
        conv2d(k) == [op |-> "conv2d", x |-> a.x, kernel |-> kernel, k |-> k,
                      strides |-> a.strides]
    IN  IF ConvOutcome(a) # "ok" THEN None
        ELSE IF br = "exempt" THEN conv2d([use |-> "raw", div |-> 1])
        ELSE IF br = "l2_l2"
             THEN IF sc = "bound"
                  THEN conv2d([use |-> "raw",
                               div |-> CeilDiv(a.filter_size, a.strides[2])])
                  ELSE None
             ELSE IF sc = "optimize" THEN conv2d([use |-> "raw", div |-> 1])
                  ELSE conv2d([use |-> IF br = "l1_l2" THEN "l2_normalize"
                                       ELSE "l1_normalize", div |-> 1])

\* The calls a construction pass makes: a tracked layer with any norm and scheme,
\* an exempt layer with the defaults or with the norm and scheme of the network.
ConvArgs ==
    [fn : {"_conv"}, x : {Tensor(i) : i \in Activations},
     filter_size : FilterSizes, strides : StrideArrs, is_pre_noise : {FALSE},
     layer_sensivity_bound : LayerBounds,
     sensitivity_control_scheme : Schemes]
    \cup
    [fn : {"_conv"}, x : {Tensor(i) : i \in Activations},
     filter_size : FilterSizes, strides : StrideArrs, is_pre_noise : {TRUE},
     layer_sensivity_bound : {"None"}, sensitivity_control_scheme : {"None"}]
    \cup
    [fn : {"_conv"}, x : {Tensor(i) : i \in Activations},
     filter_size : FilterSizes, strides : StrideArrs, is_pre_noise : {TRUE},
     layer_sensivity_bound : {"l2_l2"}, sensitivity_control_scheme : {"bound"}]

Conv(a, n) ==
    /\ pc = "build"
    /\ Len(layers) < MaxLayers
    /\ LET out    == ConvOutcome(a)
           kernel == Len(layers) + 1
       IN  /\ call' = a
           /\ ret' = ConvRet(a, kernel)
           /\ err' = IF out = "ok" THEN "none" ELSE out
           /\ pc' = IF out = "ok" THEN "build" ELSE "aborted"
           /\ IF out = "AssertionError"
              THEN UNCHANGED <<_sensitivities, _parseval_convs, layers>>
              ELSE /\ _sensitivities' = ConvSens(a, n, _sensitivities)
                   /\ _parseval_convs' = ConvParseval(a, kernel, _parseval_convs)
                   /\ layers' = Append(layers,
                          [tracked |-> ~a.is_pre_noise,
                           bound   |-> a.layer_sensivity_bound,
                           scheme  |-> a.sensitivity_control_scheme,
                           norm    |-> n,
                           outcome |-> out,
                           returned |-> ret'.op])
    /\ UNCHANGED <<hps, mode, _parseval_ws, _extra_train_ops, gate_hit,
                   noise_layers, graph, status, writes>>

\* ------------------------------------------------------- _noise_layer
\* The effective sensitivity of line 222-225; 0 stands for the unbound local.
NoiseSensitivity(scheme, sens) ==
    IF scheme = "optimize" THEN reduce_prod(sens)
    ELSE IF scheme = "bound" THEN 1
         ELSE 0

\* How _noise_layer ends: _dp_mult's exception first, then the unbound
\* `sensitivity` at line 227, then the unbound `noise` at line 238.
NoiseOutcome(h, norm, scheme) ==
    LET m == _dp_mult(h, norm)
    IN  IF m.err # "ok" THEN m.err
        ELSE IF scheme \notin {"optimize", "bound"} THEN "UnboundLocalError"
             ELSE IF norm \notin {"l1", "l2"} THEN "UnboundLocalError"
                  ELSE "ok"

NoiseRet(h, x, norm, scheme, sens) ==
    IF NoiseOutcome(h, norm, scheme) # "ok" THEN None
    ELSE [op |-> "add", x |-> x,
          noise |-> [dist |-> IF norm = "l1" THEN "Laplace" ELSE "Normal",
                     dp_mult |-> _dp_mult(h, norm),
                     sensitivity |-> NoiseSensitivity(scheme, sens)]]

GateArgs ==
    [fn : {"_maybe_add_noise_layer"}, x : {Tensor(i) : i \in Activations},
     sensitivity_norm : NoiseNorms, sensitivity_control_scheme : Schemes,
     position : Positions]

\* The gate without its test of the position.
GateOpen_always(h, position) == TRUE

\* Whether the gate hands the activation to _noise_layer.

GateOpen(h, position) == position = h.noise_after_n_layers

MaybeAddNoiseLayer(a) ==
    /\ pc = "build"
    /\ call' = a
    /\ IF GateOpen(hps, a.position)
       THEN LET out == NoiseOutcome(hps, a.sensitivity_norm,
                                    a.sensitivity_control_scheme)
            IN  /\ noise_layers < MaxNoise
                /\ noise_layers' = noise_layers + 1
                /\ ret' = NoiseRet(hps, a.x, a.sensitivity_norm,
                                   a.sensitivity_control_scheme, _sensitivities)
                /\ err' = IF out = "ok" THEN "none" ELSE out
                /\ pc' = IF out = "ok" THEN "build" ELSE "aborted"
       ELSE /\ ret' = a.x
            /\ err' = "none"
            /\ UNCHANGED <<noise_layers, pc>>
    /\ gate_hit' = (gate_hit \/ a.position = hps.noise_after_n_layers)
    /\ UNCHANGED <<hps, mode, _sensitivities, _parseval_convs, _parseval_ws,
                   _extra_train_ops, layers, graph, status, writes>>

\* ---------------------------------------------------- _extra_train_ops
\* A layer of the construction pass registers one more op to run with the
\* optimizer step; op i updates a statistic of its own, never a kernel.
ExtraTrainOp ==
    /\ pc = "build"
    /\ Len(_extra_train_ops) < MaxExtra
    /\ _extra_train_ops' =
           Append(_extra_train_ops, <<"extra", Len(_extra_train_ops) + 1>>)
    /\ call' = [fn |-> "_extra_train_ops.append"]
    /\ ret' = None
    /\ err' = "none"
    /\ UNCHANGED <<hps, mode, pc, _sensitivities, _parseval_convs, _parseval_ws,
                   layers, gate_hit, noise_layers, graph, status, writes>>

\* ------------------------------------------------------ _build_train_op
Node(deps, wr) == [deps |-> deps, writes |-> wr]

SeqSet(s) == {s[i] : i \in DOMAIN s}

\* tf.trainable_variables(): every kernel tf.get_variable created.
TrainableVariables == {<<"DW", k>> : k \in 1..Len(layers)}

\* The update ops with every assignment writing the first kernel of its list.
ParsevalUpdateOps_first(convs, ws) ==
    [i \in 1..Len(convs) |-> [id |-> <<"assign_conv", i>>,
                               target |-> <<"DW", convs[1]>>]]
    \o [i \in 1..Len(ws) |-> [id |-> <<"assign_w", i>>,
                              target |-> <<"W", ws[1]>>]]

\* _build_parseval_update_ops: one tf.assign per entry of each list, in order.
ParsevalUpdateOps(convs, ws) ==
    [i \in 1..Len(convs) |-> [id |-> <<"assign_conv", i>>,
                               target |-> <<"DW", convs[i]>>]]
    \o [i \in 1..Len(ws) |-> [id |-> <<"assign_w", i>>,
                              target |-> <<"W", ws[i]>>]]

\* Ops created with no control dependency on the previous ops.
ControlDependencies_none(previous_ops) == {}

\* with tf.control_dependencies(previous_ops): what each op created inside waits for.

ControlDependencies(previous_ops) == previous_ops

\* The ops of the train step, each with the ops it waits for and the tensors it
\* assigns.
TrainGraph ==
    LET gradients == <<"gradients", 0>>
        apply_op  == <<"train_step", 0>>
        group     == <<"group", 0>>
        update    == <<"parseval_update", 0>>
        train     == <<"train", 0>>
        train_ops == <<apply_op>> \o _extra_train_ops
        pops      == ParsevalUpdateOps(_parseval_convs, _parseval_ws)
        parseval  == Len(_parseval_convs) + Len(_parseval_ws) > 0
        assigns   == {pops[i].id : i \in DOMAIN pops}
        target(o) == (CHOOSE i \in DOMAIN pops : pops[i].id = o)
        base == (gradients :> Node({}, {}))
             @@ (apply_op :> Node({gradients},
                                  TrainableVariables \cup {<<"global_step", 0>>}))
             @@ [o \in SeqSet(_extra_train_ops) |-> Node({}, {o})]
             @@ (group :> Node(SeqSet(train_ops), {}))
        tight == [o \in assigns |->
                     Node(ControlDependencies({group}), {pops[target(o)].target})]
             @@ (update :> Node(assigns \cup ControlDependencies({group}), {}))
        previous_ops == IF parseval THEN {update} ELSE {group}
    IN  base @@ (IF parseval THEN tight ELSE <<>>)
             @@ (train :> Node(previous_ops, {}))

Written(g) == UNION {g[o].writes : o \in DOMAIN g}

\* build_graph once _build_model has returned.
BuildGraph ==
    /\ pc = "build"
    /\ pc' = "built"
    /\ call' = [fn |-> "_build_train_op"]
    /\ ret' = None
    /\ err' = "none"
    /\ graph' = IF mode = "train" THEN TrainGraph ELSE <<>>
    /\ status' = [o \in DOMAIN graph' |-> "idle"]
    /\ writes' = [t \in Written(graph') |-> <<>>]
    /\ UNCHANGED <<hps, mode, _sensitivities, _parseval_convs, _parseval_ws,
                   _extra_train_ops, layers, gate_hit, noise_layers>>

\* ------------------------------------------- one run of self.train_op
\* The engine starts an op once every op it waits for has finished.
RunStart(o) ==
    /\ pc = "built"
    /\ status[o] = "idle"
    /\ \A d \in graph[o].deps : status[d] = "done"
    /\ status' = [status EXCEPT ![o] = "running"]
    /\ UNCHANGED <<hps, mode, pc, _sensitivities, _parseval_convs, _parseval_ws,
                   _extra_train_ops, layers, gate_hit, noise_layers, call, ret,
                   err, graph, writes>>

RunFinish(o) ==
    /\ pc = "built"
    /\ status[o] = "running"
    /\ status' = [status EXCEPT ![o] = "done"]
    /\ writes' = [t \in DOMAIN writes |->
                     IF t \in graph[o].writes THEN Append(writes[t], o)
                     ELSE writes[t]]
    /\ UNCHANGED <<hps, mode, pc, _sensitivities, _parseval_convs, _parseval_ws,
                   _extra_train_ops, layers, gate_hit, noise_layers, call, ret,
                   err, graph>>

\* The training loop asks for the next step once this one is reported complete.
NextStep ==
    /\ pc = "built"
    /\ <<"train", 0>> \in DOMAIN graph
    /\ status[<<"train", 0>>] = "done"
    /\ status' = [o \in DOMAIN graph |-> "idle"]
    /\ writes' = [t \in DOMAIN writes |-> <<>>]
    /\ UNCHANGED <<hps, mode, pc, _sensitivities, _parseval_convs, _parseval_ws,
                   _extra_train_ops, layers, gate_hit, noise_layers, call, ret,
                   err, graph>>

\* ------------------------------------------------------ specifications
Optimizers == {"sgd", "mom"}
Modes      == {"train", "eval"}
Epsilons   == {-1, 0, 1, 2}
Deltas     == {-5, 0, 5, 200}

\* Configurations with a valid privacy budget.
HpsValid ==
    [noise_after_n_layers : {1}, dp_epsilon : {1}, dp_delta : {5},
     attack_norm_bound : {1}, optimizer : {"sgd"}]

\* Configurations with any privacy budget; nothing validates the budget.
HpsAny ==
    [noise_after_n_layers : Positions, dp_epsilon : Epsilons, dp_delta : Deltas,
     attack_norm_bound : {1, 4}, optimizer : Optimizers]

\* Model.__init__
InitModel ==
    /\ pc = "build"
    /\ _sensitivities = <<1>>
    /\ _parseval_convs = <<>>
    /\ _parseval_ws = <<>>
    /\ _extra_train_ops = <<>>
    /\ layers = <<>>
    /\ gate_hit = FALSE
    /\ noise_layers = 0
    /\ call = [fn |-> "__init__"]
    /\ ret = None
    /\ err = "none"
    /\ graph = <<>>
    /\ status = <<>>
    /\ writes = <<>>

Init ==
    /\ hps \in HpsValid
    /\ mode \in Modes
    /\ InitModel

KernelNorms(a) == IF Measures(a) THEN Norms ELSE {1}

Next ==
    \/ \E a \in ConvArgs : \E n \in KernelNorms(a) : Conv(a, n)
    \/ ExtraTrainOp
    \/ BuildGraph
    \/ \E o \in DOMAIN graph : RunStart(o)
    \/ \E o \in DOMAIN graph : RunFinish(o)
    \/ NextStep

Spec == Init /\ [][Next]_vars

InitNoise ==
    /\ hps \in HpsAny
    /\ mode = "train"
    /\ InitModel

NextNoise ==
    \/ \E a \in GateArgs : MaybeAddNoiseLayer(a)
    \/ BuildGraph

SpecNoise == InitNoise /\ [][NextNoise]_vars

\* -------------------------------------------------------------- claims
apply_op == <<"train_step", 0>>
train_op == <<"train", 0>>

Assigns == {o \in DOMAIN graph : o[1] \in {"assign_conv", "assign_w"}}
Extras  == {o \in DOMAIN graph : o[1] = "extra"}

\* C1: in every run of the train step with a tensor tracked for tightening, the
\* optimizer apply starts only after the gradients are done, a tightening
\* assignment starts only after the optimizer apply and every extra train op are
\* done, and the train op is reported only after every assignment is done.
C1_TighteningAfterApply ==
    (pc = "built" /\ Assigns # {}) =>
        /\ status[apply_op] # "idle" => status[<<"gradients", 0>>] = "done"
        /\ \A a \in Assigns :
              status[a] # "idle" =>
                  /\ status[apply_op] = "done"
                  /\ \A e \in Extras : status[e] = "done"
        /\ status[train_op] # "idle" => \A a \in Assigns : status[a] = "done"

\* A tightening assignment is running, after the apply and an extra train op,
\* while another assignment and the train op have not started.
C1_Witness ==
    /\ pc = "built"
    /\ Extras # {}
    /\ \E a, b \in Assigns : status[a] = "running" /\ status[b] = "idle"
    /\ status[train_op] = "idle"

\* The tensors tracked for tightening.
Tracked ==
    {<<"DW", _parseval_convs[i]>> : i \in DOMAIN _parseval_convs}
    \cup {<<"W", _parseval_ws[i]>> : i \in DOMAIN _parseval_ws}

Writers(t) == {o \in DOMAIN graph : t \in graph[o].writes}

\* The ops that op o waits for, directly or through other ops.
RECURSIVE Ancestors(_)
Ancestors(o) ==
    graph[o].deps \cup UNION {Ancestors(d) : d \in graph[o].deps}

\* C9 as stated: over the ops of the train step, no tracked tensor is assigned
\* by more than one op.
C9_SingleWriter ==
    pc = "built" => \A t \in Tracked : Cardinality(Writers(t)) <= 1

\* C9 as amended: each tracked tensor is assigned by exactly two ops of the
\* train step, the optimizer apply and one tightening assignment that waits for
\* it; the two never run at once and write in that order.
C9_TwoOrderedWriters ==
    (pc = "built" /\ mode = "train") =>
        \A t \in Tracked :
            /\ \E a \in Assigns :
                  /\ Writers(t) = {apply_op, a}
                  /\ apply_op \in Ancestors(a)
                  /\ writes[t] \in {<<>>, <<apply_op>>, <<apply_op, a>>}
            /\ Cardinality({o \in Writers(t) : status[o] = "running"}) <= 1

\* Both writers of a tracked kernel have written in one step, while the
\* assignment of another tracked kernel is still running.
C9_Witness ==
    /\ pc = "built"
    /\ mode = "train"
    /\ Len(_parseval_convs) = 2
    /\ \E t \in Tracked : Len(writes[t]) = 2
    /\ \E a \in Assigns : status[a] = "running"

\* The product of the norms the log of built layers records.
RECURSIVE NormProduct(_)
NormProduct(log) ==
    IF log = <<>> THEN 1 ELSE Head(log).norm * NormProduct(Tail(log))

AllL2Bound ==
    /\ layers # <<>>
    /\ \A i \in DOMAIN layers :
          /\ layers[i].tracked
          /\ layers[i].bound = "l2_l2"
          /\ layers[i].scheme = "bound"

AllOptimize ==
    /\ layers # <<>>
    /\ \A i \in DOMAIN layers :
          /\ layers[i].tracked
          /\ layers[i].scheme = "optimize"
          /\ layers[i].outcome = "ok"

\* C4 as stated: after k tracked l2_l2 layers under bound the tracked product
\* is 1, and after k tracked layers under optimize it is the product of their
\* measured norms.
C4_BoundProductIsOne ==
    /\ AllL2Bound => pre_noise_sensitivity = 1
    /\ AllOptimize => pre_noise_sensitivity = NormProduct(layers)

\* C4 as amended: after k tracked l2_l2 layers under bound the tracked product
\* is the product of the largest singular values measured on their kernels, and
\* after k tracked layers under optimize it is the product of their measured
\* norms; the seed 1 contributes nothing.
C4_ProductOfMeasured ==
    (AllL2Bound \/ AllOptimize) => pre_noise_sensitivity = NormProduct(layers)

\* Two l2_l2 layers under bound whose kernels both measure 2.
C4_Witness ==
    /\ AllL2Bound
    /\ Len(layers) = 2
    /\ NormProduct(layers) = 4

\* The log entries whose layer put a value into the tracker.
Registered ==
    {i \in DOMAIN layers :
        /\ layers[i].tracked
        /\ layers[i].outcome = "ok"
        /\ \/ layers[i].bound = "l2_l2" /\ layers[i].scheme = "bound"
           \/ layers[i].bound \in {"l1_l2", "l1_l1"}}

C6_OptimizeL2Raises ==
    (/\ call.fn = "_conv"
     /\ ~call.is_pre_noise
     /\ call.layer_sensivity_bound = "l2_l2"
     /\ call.sensitivity_control_scheme = "optimize") =>
        /\ pc = "aborted"
        /\ ret = None
        /\ err # "none"
        /\ StridesOk(call) =>
               err = "ValueError: Cannot optimize sensitivity for l2_l2."

\* The second layer of a pass is a tracked l2_l2 layer with scheme optimize and
\* stride 2, and the call has raised.
C6_Witness ==
    /\ call.fn = "_conv"
    /\ ~call.is_pre_noise
    /\ call.layer_sensivity_bound = "l2_l2"
    /\ call.sensitivity_control_scheme = "optimize"
    /\ call.strides = <<1, 2, 2, 1>>
    /\ Len(layers) = 2
    /\ err = "ValueError: Cannot optimize sensitivity for l2_l2."

\* The norm and scheme pairs a tracked layer supports.
Supported(a) ==
    \/ a.layer_sensivity_bound = "l2_l2"
         /\ a.sensitivity_control_scheme = "bound"
    \/ a.layer_sensivity_bound \in {"l1_l2", "l1_l1"}
         /\ a.sensitivity_control_scheme \in {"bound", "optimize"}

\* C7: a tracked _conv call with an unsupported pair of norm and scheme raises
\* and registers nothing.
C7_UnsupportedFails ==
    [][(/\ pc = "build"
        /\ call'.fn = "_conv"
        /\ ~call'.is_pre_noise
        /\ ~Supported(call'))
          => (err' # "none" /\ UNCHANGED book)]_vars

\* C10: a kernel is in _parseval_convs exactly when its layer was built
\* successfully as a tracked l2_l2 layer under bound, so a call that raises has
\* added none.
C10_TrackedIffBuilt ==
    \A k \in DOMAIN layers :
        (k \in SeqSet(_parseval_convs)) <=>
            /\ layers[k].tracked
            /\ layers[k].bound = "l2_l2"
            /\ layers[k].scheme = "bound"
            /\ layers[k].outcome = "ok"
            /\ layers[k].returned = "conv2d"

\* C2: a gate call whose position differs from the configured ordinal returns
\* its input and creates no noise layer; a call at the ordinal is the only one
\* that enters _noise_layer, and only there is the result the activation plus
\* noise.
C2_GateIdentity ==
    [][(pc = "build" /\ call'.fn = "_maybe_add_noise_layer") =>
          IF call'.position # hps.noise_after_n_layers
          THEN /\ ret' = call'.x
               /\ err' = "none"
               /\ UNCHANGED <<noise_layers, pc>>
          ELSE /\ noise_layers' = noise_layers + 1
               /\ ret' # call'.x
               /\ err' = "none" =>
                     (ret'.op = "add" /\ ret'.x = call'.x)]_vars

\* After the noise layer was added at the ordinal, a call at another position
\* has returned its input.
C2_Witness ==
    /\ pc = "build"
    /\ call.fn = "_maybe_add_noise_layer"
    /\ call.position # hps.noise_after_n_layers
    /\ ret = call.x
    /\ noise_layers = 1

\* C3: construction completes only if some gate call had the configured ordinal
\* as its position.
C3_OrdinalValidated == pc = "built" => gate_hit

InvalidBudget(h) == h.dp_epsilon <= 0 \/ h.dp_delta <= 0

\* C8: with epsilon <= 0 or delta <= 0 a gate call at the ordinal fails, under
\* the norm of either mechanism and either control scheme: _dp_mult returns no
\* multiplier, so none that is negative, and no noise is built.
C8_InvalidBudgetFails ==
    (/\ call.fn = "_maybe_add_noise_layer"
     /\ call.position = hps.noise_after_n_layers
     /\ call.sensitivity_norm \in {"l1", "l2"}
     /\ call.sensitivity_control_scheme \in {"bound", "optimize"}
     /\ InvalidBudget(hps)) =>
        /\ _dp_mult(hps, call.sensitivity_norm).err # "ok"
        /\ ~IsNegative(_dp_mult(hps, call.sensitivity_norm))
        /\ err # "none"
        /\ ret = None

============================================================================
